---- MODULE Spec2Model ----
(***************************************************************************)
(* Model of resize_compress.py: the per-image transform process_image,     *)
(* the locality probe is_network_path and the dispatch loop of main.       *)
(***************************************************************************)
EXTENDS Integers, Sequences, FiniteSets, TLC

(***************************************************************************)
(* Python float arithmetic (IEEE-754 binary64, round to nearest, ties to   *)
(* even) on positive values.  A float is [m, p]: m is the significand as   *)
(* MantissaBits binary digits, most significant first (m[1] = 1), and p is *)
(* the power of two of m[1]; its value is SUM m[i] * 2^(p - i + 1).        *)
(***************************************************************************)
MantissaBits == 53

\* Width of the digit groups the exact integer product is computed in.
ChunkBits == 15

Max(a, b) == IF a >= b THEN a ELSE b

\* The w low binary digits of v >= 0, most significant first (w <= 30).
FixedBits(v, w) == IF w <= 0 THEN << >> ELSE [i \in 1..w |-> (v \div 2 ^ (w - i)) % 2]

\* Number of binary digits of n, 0 <= n < 2^30.
BitLength(n) == CHOOSE len \in 0..30 : n < 2 ^ len /\ (len = 0 \/ 2 ^ (len - 1) <= n)

\* Binary digits of n >= 0, most significant first; << >> for 0.
BitsOf(n) == FixedBits(n, BitLength(n))

RECURSIVE BitsToInt(_)
BitsToInt(bits) ==
    IF bits = << >> THEN 0
    ELSE 2 * BitsToInt(SubSeq(bits, 1, Len(bits) - 1)) + bits[Len(bits)]

Zeros(n) == IF n <= 0 THEN << >> ELSE [i \in 1..n |-> 0]

AnyOne(bits) == \E i \in 1..Len(bits) : bits[i] = 1

\* bits + 1 on a fixed width, for bits that are not all 1.
IncBits(bits) ==
    LET last0 == CHOOSE i \in 1..Len(bits) :
                     bits[i] = 0 /\ \A j \in (i + 1)..Len(bits) : bits[j] = 1
    IN  SubSeq(bits, 1, last0 - 1) \o <<1>> \o Zeros(Len(bits) - last0)

\* Round the exact value (digits `bits` with leading 1 at power p, plus a
\* non-zero tail below them when `sticky`) to MantissaBits digits.
RoundNearestEven(bits, p, sticky) ==
    LET padded == bits \o Zeros(MantissaBits + 1 - Len(bits))
        kept   == SubSeq(padded, 1, MantissaBits)
        guard  == padded[MantissaBits + 1]
        rest   == sticky \/ AnyOne(SubSeq(padded, MantissaBits + 2, Len(padded)))
        up     == guard = 1 /\ (rest \/ kept[MantissaBits] = 1)
        allOne == \A i \in 1..MantissaBits : kept[i] = 1
    IN  IF ~up THEN [m |-> kept, p |-> p]
        ELSE IF allOne THEN [m |-> <<1>> \o Zeros(MantissaBits - 1), p |-> p + 1]
        ELSE [m |-> IncBits(kept), p |-> p]

RECURSIVE PowMod2(_, _)
\* 2^e mod b, for 0 < b < 2^15.
PowMod2(e, b) ==
    IF e = 0 THEN 1 % b
    ELSE LET half == PowMod2(e \div 2, b)
         IN  (half * half * (IF e % 2 = 1 THEN 2 ELSE 1)) % b

\* The remainder left after i binary digits of r / b (0 <= r < b < 2^15).
FracRem(r, b, i) == (r * PowMod2(i, b)) % b

\* The next n binary digits of r / b and the remainder left (long division:
\* digit i is floor(2 * rem / b) for the remainder after i - 1 digits).
FracBits(r, b, n) ==
    [bits |-> IF n <= 0 THEN << >>
              ELSE [i \in 1..n |-> (2 * FracRem(r, b, i - 1)) \div b],
     rem  |-> FracRem(r, b, n)]

RECURSIVE LeadingFrac(_, _, _)
\* Position of the first 1 digit of r / b (0 < r < b): its power and the
\* remainder after it.
LeadingFrac(r, b, p) ==
    IF 2 * r >= b THEN [p |-> p, rem |-> 2 * r - b]
    ELSE LeadingFrac(2 * r, b, p - 1)

\* int / int (true division) of positive integers, correctly rounded.
TrueDiv(a, b) ==
    LET ip == BitsOf(a \div b)
    IN  IF ip # << >>
        THEN LET f == FracBits(a % b, b, MantissaBits + 1 - Len(ip))
             IN  RoundNearestEven(ip \o f.bits, Len(ip) - 1, f.rem # 0)
        ELSE LET l == LeadingFrac(a, b, -1)
                 f == FracBits(l.rem, b, MantissaBits)
             IN  RoundNearestEven(<<1>> \o f.bits, l.p, f.rem # 0)

RECURSIVE MulDigits(_, _, _, _)
\* n * bits[1..hi] + carry for 0 < n < 2^15: the hi low digits and the carry
\* out, computed a group of ChunkBits digits at a time from the low end.
MulDigits(bits, n, hi, carry) ==
    IF hi = 0 THEN [bits |-> << >>, carry |-> carry]
    ELSE LET lo   == Max(1, hi - ChunkBits + 1)
             d    == n * BitsToInt(SubSeq(bits, lo, hi)) + carry
             wd   == hi - lo + 1
             more == MulDigits(bits, n, lo - 1, d \div 2 ^ wd)
         IN  [bits |-> more.bits \o FixedBits(d % 2 ^ wd, wd), carry |-> more.carry]

\* int * float for n >= 1: n converts exactly, the product is rounded once.
IntTimesFloat(n, f) ==
    LET low  == MulDigits(f.m, n, MantissaBits, 0)
        prod == BitsOf(low.carry) \o low.bits
    IN  RoundNearestEven(prod, f.p + (Len(prod) - MantissaBits), FALSE)

\* float < 1
LessThanOne(f) == f.p < 0

\* int(float): truncation toward zero.
FloatToInt(f) == IF f.p < 0 THEN 0 ELSE BitsToInt(SubSeq(f.m, 1, f.p + 1))

(***************************************************************************)
(* Python values: None and bytes; a dict is a function on its keys.        *)
(***************************************************************************)
PyNone == [t |-> "None"]

PyBytes(content) == [t |-> "bytes", v |-> content]

\* Truth value of None or of a bytes object (`if exif_data:`).
Truthy(val) == val.t = "bytes" /\ val.v # << >>

\* dict.get(key, default)
DictGet(d, key, default) == IF key \in DOMAIN d THEN d[key] ELSE default

(***************************************************************************)
(* Defaults of the command line.                                           *)
(***************************************************************************)
DEFAULT_MAX_SIDE == 1280

DEFAULT_JPEG_QUALITY == 65

(***************************************************************************)
(* ImageOps.exif_transpose.  An EXIF block is the sequence of its          *)
(* <<tag, value>> entries; OrientationTag is the Orientation tag 0x0112.   *)
(***************************************************************************)
OrientationTag == 274

ExifOrientation(block) ==
    IF \E i \in 1..Len(block) : block[i][1] = OrientationTag
    THEN block[CHOOSE i \in 1..Len(block) : block[i][1] = OrientationTag][2]
    ELSE 1

WithoutOrientation(block) == SelectSeq(block, LAMBDA entry : entry[1] # OrientationTag)

\* Orientations 2..8 transpose the pixels (5..8 swap width and height) and
\* the copy returned no longer carries the tag; otherwise a plain copy.
exif_transpose(img) ==
    LET exif == DictGet(img.info, "exif", PyBytes(<< >>))
        o    == IF exif.t = "bytes" THEN ExifOrientation(exif.v) ELSE 1
    IN  IF o \in 2..8
        THEN [img EXCEPT !.size = IF o \in 5..8 THEN <<@[2], @[1]>> ELSE @,
                         !.info = [@ EXCEPT !["exif"] = PyBytes(WithoutOrientation(exif.v))]]
        ELSE img

(***************************************************************************)
(* process_image                                                           *)
(***************************************************************************)
\* ResizeTarget without the `if ratio < 1` test.
ResizeTargetAlways(w, h, maxSide) ==
    LET ratio == TrueDiv(maxSide, Max(w, h))
    IN  <<FloatToInt(IntTimesFloat(w, ratio)), FloatToInt(IntTimesFloat(h, ratio))>>

\* Lines 69-72: the size handed to img.resize, or << >> when ratio >= 1 and
\* resize is not called.
ResizeTarget(w, h, maxSide) ==
    LET ratio == TrueDiv(maxSide, Max(w, h))
    IN  IF LessThanOne(ratio)
        THEN <<FloatToInt(IntTimesFloat(w, ratio)), FloatToInt(IntTimesFloat(h, ratio))>>
        ELSE << >>

\* SaveKwargs with the ICC test nested inside the EXIF test.
SaveKwargsNested(exif_data, icc_profile, quality) ==
    LET base == [format |-> "JPEG", quality |-> quality, optimize |-> TRUE]
    IN  IF ~Truthy(exif_data) THEN base
        ELSE IF Truthy(icc_profile)
             THEN base @@ ("exif" :> exif_data) @@ ("icc_profile" :> icc_profile)
             ELSE base @@ ("exif" :> exif_data)

\* Lines 75-79: the keyword arguments of img.save.
SaveKwargs(exif_data, icc_profile, quality) ==
    LET base     == [format |-> "JPEG", quality |-> quality, optimize |-> TRUE]
        withExif == IF Truthy(exif_data) THEN base @@ ("exif" :> exif_data) ELSE base
    IN  IF Truthy(icc_profile) THEN withExif @@ ("icc_profile" :> icc_profile) ELSE withExif

FileName(stem, suffix) == [stem |-> stem, suffix |-> suffix]

NoName == FileName("", "")

\* f"[OK] {input_path.name} -> {output_path.name}"
Ok(name, dest, resized, saved) ==
    [tag |-> "OK", name |-> name, dest |-> dest, cause |-> "", resized |-> resized,
     mkdir |-> TRUE, saved |-> {saved}]

\* f"[ERR] {input_path.name}: {e}"
Err(name, cause, resized, mkdir) ==
    [tag |-> "ERR", name |-> name, dest |-> NoName, cause |-> cause,
     resized |-> resized, mkdir |-> mkdir, saved |-> {}]

\* mkdir without exist_ok: raises whenever the path exists.
MkdirRaisesIfExists(dir) == dir.kind # "absent"

\* mkdir(parents=True, exist_ok=True) on the output directory `dir`:
\* raises only when the path exists and is not a directory.
MkdirRaises(dir) == dir.kind = "file"

\* process_image(input_path, output_path, max_side, jpeg_quality) for the
\* file `input`, with the output directory in state `dir`.  The result is
\* the returned line (tag, name, dest or cause) with what the call did: the size it
\* asked img.resize for, whether it made sure of the directory, and the file
\* it saved.
process_image(input, dest, dir, maxSide, quality) ==
    IF input.corrupt
    THEN Err(input.name, "cannot identify image file", << >>, FALSE)
    ELSE LET img         == input.image
             exif_data   == DictGet(img.info, "exif", PyBytes(<< >>))
             icc_profile == DictGet(img.info, "icc_profile", PyNone)
             transposed  == exif_transpose(img)
             converted   == IF transposed.mode \in {"RGBA", "LA", "P"}
                            THEN [transposed EXCEPT !.mode = "RGB"]
                            ELSE transposed
             target      == ResizeTarget(converted.size[1], converted.size[2], maxSide)
             resized     == IF target = << >> THEN converted
                            ELSE [converted EXCEPT !.size = target]
         IN  IF target # << >> /\ (target[1] < 1 \/ target[2] < 1)
             THEN Err(input.name, "height and width must be > 0", target, FALSE)
             ELSE IF MkdirRaises(dir)
             THEN Err(input.name, "FileExistsError", target, FALSE)
             ELSE Ok(input.name, dest, target,
                     [name |-> dest, size |-> resized.size, mode |-> resized.mode,
                      kwargs |-> SaveKwargs(exif_data, icc_profile, quality)])

(***************************************************************************)
(* is_network_path.  A resolved path is described by what the function     *)
(* reads of it: whether its string starts with two backslashes, its drive  *)
(* (Path.drive, or s[:2] when s[1] is a colon; "" when there is none),     *)
(* whether ctypes.windll exists, and what GetDriveTypeW answers.           *)
(***************************************************************************)
DRIVE_REMOTE == 4

is_network_path(path) ==
    IF path.unc THEN TRUE
    ELSE IF path.drive = "" THEN FALSE
    ELSE IF ~path.windll THEN FALSE      \* the except branch
    ELSE path.driveType = DRIVE_REMOTE

(***************************************************************************)
(* The folder.  Catalog lists the directory entries a folder of the model  *)
(* can hold, in the order iterdir yields them.                             *)
(***************************************************************************)
EmptyDict == [key \in {} |-> PyNone]

Picture(w, h, mode, info) == [size |-> <<w, h>>, mode |-> mode, info |-> info]

NoPicture == Picture(1, 1, "RGB", EmptyDict)

Catalog ==
    << [name |-> FileName("photo", ".jpg"), kind |-> "file", corrupt |-> FALSE,
        image |-> Picture(3000, 4000, "RGB",
                          [exif |-> PyBytes(<< <<OrientationTag, 6>>, <<271, 7>> >>),
                           icc_profile |-> PyBytes(<<9, 9>>)])],
       [name |-> FileName("photo", ".png"), kind |-> "file", corrupt |-> FALSE,
        image |-> Picture(800, 600, "RGBA", EmptyDict)],
       [name |-> FileName("scan", ".JPG"), kind |-> "file", corrupt |-> TRUE,
        image |-> NoPicture],
       [name |-> FileName("strip", ".tiff"), kind |-> "file", corrupt |-> FALSE,
        image |-> Picture(4000, 1, "L", EmptyDict)],
       [name |-> FileName("notes", ".txt"), kind |-> "file", corrupt |-> TRUE,
        image |-> NoPicture],
       [name |-> FileName("album", ".jpg"), kind |-> "dir", corrupt |-> TRUE,
        image |-> NoPicture] >>

Paths ==
    { [unc |-> TRUE,  drive |-> "\\\\nas\\photos", windll |-> TRUE,  driveType |-> 4],
      [unc |-> FALSE, drive |-> "Z:",              windll |-> TRUE,  driveType |-> 4],
      [unc |-> FALSE, drive |-> "C:",              windll |-> TRUE,  driveType |-> 3],
      [unc |-> FALSE, drive |-> "",                windll |-> FALSE, driveType |-> 0] }

\* Bounds of the model.
MaxFiles == 3

MaxCores == 2

MaxDim == 24

MaxSide == 14

\* The first and the second run of the program on the same folder.
Runs == {1, 2}

\* str.lower() on the suffixes of the catalog.
Lower(str) ==
    CASE str = ".JPG" -> ".jpg"
      [] str = ".PNG" -> ".png"
      [] OTHER -> str

exts == {".jpg", ".jpeg", ".png", ".tif", ".tiff", ".webp", ".heic", ".heif", ".bmp"}

VARIABLES
    input_dir,        \* the resolved input folder, as is_network_path sees it
    cpu_count,        \* os.cpu_count(); 0 stands for None
    max_side,         \* args.max_side
    jpeg_quality,     \* args.jpeg_quality
    entries,          \* the folder: indices of Catalog present in input_dir
    compressed,       \* input_dir/compressed: absent, a file, or a directory
                      \* with its files (a dict from name to the JPEG saved)
    run,              \* which run of the program this is
    pc,               \* position of main
    files,            \* main's list `files` (names, in discovery order)
    smb_mode,         \* main's smb_mode
    cores,            \* main's cores (0 before line 117)
    cursor,           \* sequential loop: index of the file of this iteration
    queue,            \* executor: submitted tasks no worker has taken yet
    running,          \* tasks whose process_image call is in progress
    futures,          \* per task: [state, result] of its future
    early,            \* as_completed: the futures it found finished at its start
    waiter,           \* as_completed: TRUE once its waiter is installed
    finished_futures, \* as_completed: waiter.finished_futures, oldest first
    printed,          \* result lines printed so far in this run
    elapsed,          \* number of "Total elapsed time" lines printed
    attempts,         \* per task: number of process_image calls made for it
    completion,       \* tasks in the order their process_image call returned
    first,            \* what the first run discovered and targeted
    image,            \* process_image alone: the input file
    outcome           \* process_image alone: its result, once it returned

vars == <<input_dir, cpu_count, max_side, jpeg_quality, entries, compressed, run,
          pc, files, smb_mode, cores, cursor, queue, running, futures, early,
          waiter, finished_futures, printed, elapsed, attempts, completion,
          first, image, outcome>>

argVars == <<input_dir, cpu_count, max_side, jpeg_quality, entries>>

imageVars == <<image, outcome>>

poolVars == <<queue, futures, early, waiter, finished_futures>>

Range(seq) == {seq[i] : i \in 1..Len(seq)}

\* The catalog entries of the folder, in iterdir order, then the child
\* named compressed when it exists.
Children ==
    LET present == SelectSeq([i \in 1..Len(Catalog) |-> i], LAMBDA i : i \in entries)
        listed  == [i \in 1..Len(present) |->
                       [name |-> Catalog[present[i]].name, kind |-> Catalog[present[i]].kind]]
    IN  IF compressed.kind = "absent" THEN listed
        ELSE Append(listed, [name |-> FileName("compressed", ""), kind |-> compressed.kind])

\* Line 103.
Discover ==
    LET eligible == SelectSeq(Children,
                        LAMBDA p : Lower(p.name.suffix) \in exts /\ p.kind = "file")
    IN  [i \in 1..Len(eligible) |-> eligible[i].name]

\* The file of the folder with the given name, as Image.open finds it.
FileAt(name) == Catalog[CHOOSE i \in entries : Catalog[i].name = name]

\* output_dir / f"{p.stem}.jpg"
Destination(name) == FileName(name.stem, ".jpg")

\* The line process_image returns, of its result.
Line(res) == [tag |-> res.tag, name |-> res.name, dest |-> res.dest, cause |-> res.cause]

\* The output directory after a process_image call with result res.
Written(res) ==
    IF ~res.mkdir THEN compressed
    ELSE LET old == IF compressed.kind = "dir" THEN compressed.files ELSE EmptyDict
             new == IF res.saved = {} THEN old
                    ELSE LET jpeg == CHOOSE f \in res.saved : TRUE
                         IN  (jpeg.name :> jpeg) @@ old
         IN  [kind |-> "dir", files |-> new]

\* process_image for task i of this run.
Transform(i) ==
    process_image(FileAt(files[i]), Destination(files[i]), compressed,
                  max_side, jpeg_quality)

\* The tasks whose result line has been printed.
Reported == {i \in 1..Len(files) : \E k \in 1..Len(printed) : printed[k].name = files[i]}

NoFuture == [state |-> "PENDING", result |-> PyNone]

NoRun == [files |-> << >>, dests |-> {}, lines |-> {}, outputs |-> {}]

\* The names of the files in the output directory.
Outputs == IF compressed.kind = "dir" THEN DOMAIN compressed.files ELSE {}

RunIdle ==
    /\ files = << >> /\ smb_mode = FALSE /\ cores = 0 /\ cursor = 0
    /\ queue = << >> /\ running = {} /\ futures = << >> /\ early = {}
    /\ waiter = FALSE /\ finished_futures = << >> /\ printed = << >>
    /\ elapsed = 0 /\ attempts = << >> /\ completion = << >>

Init ==
    /\ input_dir \in Paths
    /\ cpu_count \in 0..MaxCores
    /\ max_side = DEFAULT_MAX_SIDE
    /\ jpeg_quality = DEFAULT_JPEG_QUALITY
    /\ entries \in {e \in SUBSET (1..Len(Catalog)) : Cardinality(e) <= MaxFiles}
    /\ compressed \in {[kind |-> "absent"], [kind |-> "file"]}
    /\ run = 1
    /\ pc = "start"
    /\ RunIdle
    /\ first = NoRun
    /\ image = Catalog[1]
    /\ outcome = PyNone

\* Lines 100-106: list the folder; leave with status 0 when nothing is eligible.
Enumerate ==
    /\ pc = "start"
    /\ files' = Discover
    /\ attempts' = [i \in 1..Len(Discover) |-> 0]
    /\ pc' = IF Discover = << >> THEN "exit" ELSE "classify"
    /\ UNCHANGED <<argVars, compressed, run, smb_mode, cores, cursor, running, poolVars,
                   printed, elapsed, completion, first, imageVars>>

\* Lines 108-111: classify the folder once and take the branch.
Classify ==
    /\ pc = "classify"
    /\ smb_mode' = is_network_path(input_dir)
    /\ pc' = IF is_network_path(input_dir) THEN "sequential" ELSE "submit"
    /\ cursor' = IF is_network_path(input_dir) THEN 1 ELSE 0
    /\ UNCHANGED <<argVars, compressed, run, files, cores, running, poolVars, printed,
                   elapsed, attempts, completion, first, imageVars>>

\* Lines 113-115: the loop enters process_image for the next file.
SeqCall ==
    /\ pc = "sequential"
    /\ cursor <= Len(files)
    /\ running = {}
    /\ running' = {cursor}
    /\ attempts' = [attempts EXCEPT ![cursor] = @ + 1]
    /\ UNCHANGED <<argVars, compressed, run, pc, files, smb_mode, cores, cursor, poolVars,
                   printed, elapsed, completion, first, imageVars>>

\* SeqPrint leaving the loop at the first failure.
SeqPrintAbort ==
    /\ pc = "sequential"
    /\ running = {cursor}
    /\ LET res == Transform(cursor)
       IN  /\ compressed' = Written(res)
           /\ printed' = Append(printed, Line(res))
           /\ pc' = IF cursor = Len(files) \/ res.tag = "ERR" THEN "elapsed"
                    ELSE "sequential"
    /\ completion' = Append(completion, cursor)
    /\ running' = {}
    /\ cursor' = cursor + 1
    /\ UNCHANGED <<argVars, run, files, smb_mode, cores, poolVars, elapsed, attempts,
                   first, imageVars>>

\* Line 115: process_image returns and its line is printed.
SeqPrint ==
    /\ pc = "sequential"
    /\ running = {cursor}
    /\ LET res == Transform(cursor)
       IN  /\ compressed' = Written(res)
           /\ printed' = Append(printed, Line(res))
    /\ completion' = Append(completion, cursor)
    /\ running' = {}
    /\ cursor' = cursor + 1
    /\ pc' = IF cursor = Len(files) THEN "elapsed" ELSE "sequential"
    /\ UNCHANGED <<argVars, run, files, smb_mode, cores, poolVars, elapsed, attempts,
                   first, imageVars>>

\* Lines 117-122: size the pool and submit every file.
Submit ==
    /\ pc = "submit"
    /\ cores' = IF cpu_count = 0 THEN 1 ELSE cpu_count
    /\ queue' = [i \in 1..Len(files) |-> i]
    /\ futures' = [i \in 1..Len(files) |-> NoFuture]
    /\ pc' = "as_completed"
    /\ UNCHANGED <<argVars, compressed, run, files, smb_mode, cursor, running, early,
                   waiter, finished_futures, printed, elapsed, attempts, completion,
                   first, imageVars>>

\* WorkerCall with no limit on the number of worker processes.
WorkerCallUnbounded ==
    /\ pc \in {"as_completed", "collect"}
    /\ queue # << >>
    /\ running' = running \cup {Head(queue)}
    /\ queue' = Tail(queue)
    /\ futures' = [futures EXCEPT ![Head(queue)].state = "RUNNING"]
    /\ attempts' = [attempts EXCEPT ![Head(queue)] = @ + 1]
    /\ UNCHANGED <<argVars, compressed, run, pc, files, smb_mode, cores, cursor, early,
                   waiter, finished_futures, printed, elapsed, completion, first,
                   imageVars>>

\* A worker process takes the oldest queued task and calls process_image.
WorkerCall ==
    /\ pc \in {"as_completed", "collect"}
    /\ queue # << >>
    /\ Cardinality(running) < cores
    /\ running' = running \cup {Head(queue)}
    /\ queue' = Tail(queue)
    /\ futures' = [futures EXCEPT ![Head(queue)].state = "RUNNING"]
    /\ attempts' = [attempts EXCEPT ![Head(queue)] = @ + 1]
    /\ UNCHANGED <<argVars, compressed, run, pc, files, smb_mode, cores, cursor, early,
                   waiter, finished_futures, printed, elapsed, completion, first,
                   imageVars>>

\* A worker's process_image call returns: the future gets its result and,
\* when as_completed is waiting, is added to its list of finished futures.
WorkerReturn(i) ==
    /\ i \in running
    /\ pc \in {"as_completed", "collect"}
    /\ LET res == Transform(i)
       IN  /\ compressed' = Written(res)
           /\ futures' = [futures EXCEPT ![i] = [state |-> "FINISHED", result |-> Line(res)]]
    /\ running' = running \ {i}
    /\ finished_futures' = IF waiter THEN Append(finished_futures, i) ELSE finished_futures
    /\ completion' = Append(completion, i)
    /\ UNCHANGED <<argVars, run, pc, files, smb_mode, cores, cursor, queue, early, waiter,
                   printed, elapsed, attempts, first, imageVars>>

\* Line 123, first step of the iterator: the futures already finished are
\* set aside to be yielded first and the waiter is installed on the others.
AsCompleted ==
    /\ pc = "as_completed"
    /\ early' = {i \in 1..Len(futures) : futures[i].state = "FINISHED"}
    /\ waiter' = TRUE
    /\ pc' = "collect"
    /\ UNCHANGED <<argVars, compressed, run, files, smb_mode, cores, cursor, queue,
                   running, futures, finished_futures, printed, elapsed, attempts,
                   completion, first, imageVars>>

\* Collect taking the future that finished last instead of the oldest.
CollectNewestFirst ==
    /\ pc = "collect"
    /\ \/ \E i \in early \ Reported :
             /\ printed' = Append(printed, futures[i].result)
             /\ UNCHANGED finished_futures
       \/ /\ early \subseteq Reported
          /\ finished_futures # << >>
          /\ printed' = Append(printed,
                               futures[finished_futures[Len(finished_futures)]].result)
          /\ finished_futures' = SubSeq(finished_futures, 1, Len(finished_futures) - 1)
    /\ UNCHANGED <<argVars, compressed, run, pc, files, smb_mode, cores, cursor, queue,
                   running, futures, early, waiter, elapsed, attempts, completion,
                   first, imageVars>>

\* Lines 123-124: the iterator yields a future and its result is printed.
\* The futures set aside at the start come first, in no particular order;
\* the others follow in the order they finished.
Collect ==
    /\ pc = "collect"
    /\ \/ \E i \in early \ Reported :
             /\ printed' = Append(printed, futures[i].result)
             /\ UNCHANGED finished_futures
       \/ /\ early \subseteq Reported
          /\ finished_futures # << >>
          /\ printed' = Append(printed, futures[Head(finished_futures)].result)
          /\ finished_futures' = Tail(finished_futures)
    /\ UNCHANGED <<argVars, compressed, run, pc, files, smb_mode, cores, cursor, queue,
                   running, futures, early, waiter, elapsed, attempts, completion,
                   first, imageVars>>

\* PoolExit leaving the loop as soon as no finished future is at hand.
PoolExitEarly ==
    /\ pc = "collect"
    /\ early \subseteq Reported
    /\ finished_futures = << >>
    /\ running = {}
    /\ pc' = "elapsed"
    /\ UNCHANGED <<argVars, compressed, run, files, smb_mode, cores, cursor, running,
                   poolVars, printed, elapsed, attempts, completion, first, imageVars>>

\* Line 124 to 126: every future was yielded; the executor shuts down.
PoolExit ==
    /\ pc = "collect"
    /\ Len(printed) = Len(futures)
    /\ pc' = "elapsed"
    /\ UNCHANGED <<argVars, compressed, run, files, smb_mode, cores, cursor, running,
                   poolVars, printed, elapsed, attempts, completion, first, imageVars>>

\* Lines 126-127.
Elapsed ==
    /\ pc = "elapsed"
    /\ elapsed' = elapsed + 1
    /\ pc' = "done"
    /\ UNCHANGED <<argVars, compressed, run, files, smb_mode, cores, cursor, running,
                   poolVars, printed, attempts, completion, first, imageVars>>

\* The program is started once more on the same folder with the same
\* arguments.
Rerun ==
    /\ pc \in {"done", "exit"}
    /\ run + 1 \in Runs
    /\ run' = run + 1
    /\ first' = [files |-> files,
                 dests |-> {Destination(files[i]) : i \in 1..Len(files)},
                 lines |-> Range(printed),
                 outputs |-> Outputs]
    /\ pc' = "start"
    /\ files' = << >> /\ smb_mode' = FALSE /\ cores' = 0 /\ cursor' = 0
    /\ queue' = << >> /\ running' = {} /\ futures' = << >> /\ early' = {}
    /\ waiter' = FALSE /\ finished_futures' = << >> /\ printed' = << >>
    /\ elapsed' = 0 /\ attempts' = << >> /\ completion' = << >>
    /\ UNCHANGED <<argVars, compressed, imageVars>>

Next ==
    \/ Enumerate
    \/ Classify
    \/ SeqCall
    \/ SeqPrint
    \/ Submit
    \/ WorkerCall
    \/ \E i \in running : WorkerReturn(i)
    \/ AsCompleted
    \/ Collect
    \/ PoolExit
    \/ Elapsed
    \/ Rerun

Spec == Init /\ [][Next]_vars

\* The steps of the main program and of the worker processes.
MainStep ==
    \/ Enumerate \/ Classify \/ SeqCall \/ SeqPrint \/ Submit
    \/ AsCompleted \/ Collect \/ PoolExit \/ Elapsed

WorkerStep == WorkerCall \/ \E i \in running : WorkerReturn(i)

(***************************************************************************)
(* process_image on its own: one call on an input drawn from ImageInputs.  *)
(***************************************************************************)
Dims == (1..MaxDim) \cup {1000, 2139, 3000, 4000}

Sides == (1..MaxSide) \cup {DEFAULT_MAX_SIDE}

ExifChoices ==
    { EmptyDict,
      "exif" :> PyBytes(<< >>),
      "exif" :> PyBytes(<< <<271, 7>> >>),
      "exif" :> PyBytes(<< <<271, 7>>, <<OrientationTag, 1>> >>),
      "exif" :> PyBytes(<< <<OrientationTag, 3>>, <<271, 7>> >>),
      "exif" :> PyBytes(<< <<OrientationTag, 6>>, <<271, 7>> >>) }

IccChoices ==
    { EmptyDict,
      "icc_profile" :> PyNone,
      "icc_profile" :> PyBytes(<< >>),
      "icc_profile" :> PyBytes(<<9, 9>>) }

SizedInputs ==
    { [name |-> FileName("img", ".png"), kind |-> "file", corrupt |-> FALSE,
       image |-> Picture(dim[1], dim[2], "RGB", EmptyDict)] : dim \in Dims \X Dims }

TaggedInputs ==
    { [name |-> FileName("img", ".jpg"), kind |-> "file", corrupt |-> c[1],
       image |-> Picture(c[2][1], c[2][2], c[3], c[4] @@ c[5])] :
         c \in BOOLEAN \X {<<4000, 3000>>, <<640, 480>>} \X {"RGB", "RGBA", "P", "L"}
                \X ExifChoices \X IccChoices }

InitImage ==
    /\ \/ image \in SizedInputs /\ max_side \in Sides
       \/ image \in TaggedInputs /\ max_side = DEFAULT_MAX_SIDE
    /\ jpeg_quality = DEFAULT_JPEG_QUALITY
    /\ compressed \in {[kind |-> "absent"], [kind |-> "file"], [kind |-> "dir", files |-> EmptyDict]}
    /\ outcome = PyNone
    /\ input_dir \in {p \in Paths : p.drive = ""}
    /\ cpu_count = 1
    /\ entries = {}
    /\ run = 1
    /\ pc = "image"
    /\ RunIdle
    /\ first = NoRun

TransformImage ==
    /\ pc = "image"
    /\ outcome = PyNone
    /\ LET res == process_image(image, Destination(image.name), compressed,
                                max_side, jpeg_quality)
       IN  /\ outcome' = res
           /\ compressed' = Written(res)
    /\ UNCHANGED <<argVars, run, pc, files, smb_mode, cores, cursor, running, poolVars,
                   printed, elapsed, attempts, completion, first, image>>

NextImage == TransformImage

SpecImage == InitImage /\ [][NextImage]_vars

(***************************************************************************)
(* Properties                                                              *)
(***************************************************************************)
\* The names of the regular files of the folder with an eligible suffix.
EligibleNames ==
    {Catalog[i].name : i \in {j \in entries : /\ Catalog[j].kind = "file"
                                              /\ Lower(Catalog[j].name.suffix) \in exts}}

LinesFor(i) == {k \in 1..Len(printed) : printed[k].name = files[i]}

\* The tasks in the order their lines were printed.
ReportedSeq ==
    [k \in 1..Len(printed) |-> CHOOSE i \in 1..Len(files) : files[i] = printed[k].name]

IsPrefix(a, b) == Len(a) <= Len(b) /\ \A k \in 1..Len(a) : a[k] = b[k]

\* The file fails by itself: process_image on it fails even with no output
\* directory in the way.
OwnFailure(name) ==
    process_image(FileAt(name), Destination(name), [kind |-> "absent"],
                  max_side, jpeg_quality).tag = "ERR"

ExpectedTag(name) ==
    IF OwnFailure(name) \/ compressed.kind = "file" THEN "ERR" ELSE "OK"

\* C1: files is exactly the eligible files, each once; no file ever has
\* more than one process_image call or more than one printed line; and when
\* the run is done every file has had exactly one call and one line, in
\* sequential and in pool mode alike.
C1_ExactlyOneResult ==
    /\ pc \notin {"start", "image"} =>
          /\ Range(files) = EligibleNames
          /\ Cardinality(Range(files)) = Len(files)
    /\ \A i \in 1..Len(files) : Cardinality(LinesFor(i)) <= 1 /\ attempts[i] <= 1
    /\ pc = "done" =>
          /\ Len(printed) = Len(files)
          /\ \A i \in 1..Len(files) : Cardinality(LinesFor(i)) = 1 /\ attempts[i] = 1

C1_Witness ==
    /\ pc = "done" /\ ~smb_mode /\ Len(files) >= 3 /\ Len(printed) = Len(files)
    /\ cpu_count >= 2

\* The steps of main and of the workers other than the return of a
\* process_image call.
StepOutsideTransform ==
    \/ Enumerate \/ Classify \/ SeqCall \/ Submit \/ WorkerCall
    \/ AsCompleted \/ Collect \/ PoolExit \/ Elapsed

\* What is left of the run: the phases ahead of main, and in the processing
\* phases the calls, returns and printed lines still to come.
Remaining ==
    LET called == Cardinality({i \in 1..Len(files) : attempts[i] > 0})
        ahead  == 3 * Len(files) - (called + Len(completion) + Len(printed))
    IN  CASE pc = "start" -> 500
          [] pc = "classify" -> 400
          [] pc = "submit" -> 300
          [] pc = "as_completed" -> 200 + ahead
          [] pc \in {"collect", "sequential"} -> 100 + ahead
          [] pc = "elapsed" -> 1
          [] OTHER -> 0

\* C2: a failure stays with its file: when the run is done every file has a
\* line, ERR exactly for the files that fail by themselves (or when the
\* output directory cannot be made) and OK for all others; the elapsed time
\* is printed once, at the end; the strategy taken is never changed; and the
\* run reaches the end: until it has ended either a transform is in flight
\* (and returns, process_image being total) or another step of main or of a
\* worker is possible, and every step brings the end nearer.
C2_FailureIsolated ==
    /\ [](/\ elapsed <= 1
          /\ (elapsed = 1) = (pc = "done")
          /\ pc = "done" =>
                \A i \in 1..Len(files) :
                    \E k \in 1..Len(printed) :
                        /\ printed[k].name = files[i]
                        /\ printed[k].tag = ExpectedTag(files[i]))
    /\ [][pc \notin {"start", "classify", "done", "exit"} => smb_mode' = smb_mode]_vars
    /\ [](pc \notin {"done", "exit"} => running # {} \/ ENABLED StepOutsideTransform)
    /\ [][(MainStep \/ WorkerStep) => Remaining' < Remaining /\ Remaining' >= 0]_vars

C2_Witness ==
    /\ pc = "done" /\ elapsed = 1
    /\ \E k \in 1..Len(printed) : printed[k].tag = "ERR"
    /\ \E k \in 1..Len(printed) : printed[k].tag = "OK"

\* C3: the branch taken is the one is_network_path gives for the folder; in
\* network mode at most one transform is in flight and no pool exists; in
\* local mode the transforms in flight never exceed the processing units
\* (os.cpu_count() or 1).
C3_StrategyBound ==
    /\ pc \notin {"start", "classify", "exit", "image"} =>
          smb_mode = \/ input_dir.unc
                     \/ /\ input_dir.drive # ""
                        /\ input_dir.windll
                        /\ input_dir.driveType = DRIVE_REMOTE
    /\ smb_mode => Cardinality(running) <= 1 /\ futures = << >> /\ queue = << >>
    /\ ~smb_mode => /\ Cardinality(running) <= (IF cpu_count = 0 THEN 1 ELSE cpu_count)
                    /\ cursor = 0

C3_Witness == ~smb_mode /\ Cardinality(running) >= 2 /\ pc = "collect"

\* C4: after a run in which every transform succeeded, the output directory
\* holds as many files as there were eligible inputs.
C4_OneOutputPerInput ==
    (pc = "done" /\ run = 1 /\ \A k \in 1..Len(printed) : printed[k].tag = "OK") =>
        compressed.kind = "dir" /\ Cardinality(Outputs) = Len(files)

\* The input of the process_image call, after exif_transpose.
OrientedSize == exif_transpose(image.image).size

Called == pc = "image" /\ outcome # PyNone

\* C5: when the longer oriented side is at most max_side, process_image does
\* not call resize and the file it saves has the oriented size exactly.
C5_NoUpscale ==
    (Called /\ ~image.corrupt /\ Max(OrientedSize[1], OrientedSize[2]) <= max_side) =>
        /\ outcome.resized = << >>
        /\ \A jpeg \in outcome.saved : jpeg.size = OrientedSize
        /\ compressed.kind # "file" => outcome.tag = "OK"

C5_Witness ==
    /\ Called /\ outcome.tag = "OK" /\ outcome.resized = << >>
    /\ OrientedSize # image.image.size
    /\ Max(OrientedSize[1], OrientedSize[2]) <= max_side
    /\ \E jpeg \in outcome.saved : jpeg.size = OrientedSize

\* C6: when the longer oriented side exceeds max_side, the size computed for
\* resize has its longer side equal to max_side and its shorter side within
\* one pixel of the exactly proportional value.
C6_LongerSideIsMaxSide ==
    (Called /\ ~image.corrupt /\ Max(OrientedSize[1], OrientedSize[2]) > max_side) =>
        LET w     == OrientedSize[1]
            h     == OrientedSize[2]
            long  == Max(w, h)
            short == IF w >= h THEN h ELSE w
            tlong  == Max(outcome.resized[1], outcome.resized[2])
            tshort == IF w >= h THEN outcome.resized[2] ELSE outcome.resized[1]
        IN  /\ tlong = max_side
            /\ tshort * long - short * max_side <= long
            /\ short * max_side - tshort * long <= long

\* C7: a successful process_image saves with exactly the EXIF block and the
\* ICC profile the input file held when it was opened, each one if and only
\* if it was non-empty, the one independently of the other.
C7_MetadataCarried ==
    (Called /\ outcome.tag = "OK") =>
        \A jpeg \in outcome.saved :
            LET exif == DictGet(image.image.info, "exif", PyBytes(<< >>))
                icc  == DictGet(image.image.info, "icc_profile", PyNone)
            IN  /\ ("exif" \in DOMAIN jpeg.kwargs) = Truthy(exif)
                /\ Truthy(exif) => jpeg.kwargs["exif"] = exif
                /\ ("icc_profile" \in DOMAIN jpeg.kwargs) = Truthy(icc)
                /\ Truthy(icc) => jpeg.kwargs["icc_profile"] = icc

C7_Witness ==
    /\ Called /\ outcome.tag = "OK"
    /\ OrientedSize # image.image.size
    /\ outcome.resized # << >>
    /\ image.image.mode = "RGBA"
    /\ "exif" \in DOMAIN image.image.info /\ "icc_profile" \notin DOMAIN image.image.info
    /\ \E jpeg \in outcome.saved :
           /\ jpeg.kwargs["exif"] = image.image.info["exif"]
           /\ "icc_profile" \notin DOMAIN jpeg.kwargs

\* In network mode the lines come in discovery order and a transform starts
\* only when the lines of all files before it are printed.
SequentialInOrder ==
    smb_mode =>
        /\ ReportedSeq = [k \in 1..Len(printed) |-> k]
        /\ running \subseteq {Len(printed) + 1}

\* C8 as stated: sequential order as above, and in local mode the lines come
\* in the order the transforms completed.
C8_ReportedInCompletionOrder ==
    /\ SequentialInOrder
    /\ ~smb_mode => IsPrefix(ReportedSeq, completion)

\* The tasks of seq that as_completed did not find finished at its start.
Late(seq) == SelectSeq(seq, LAMBDA i : i \notin early)

\* C8 amended: sequential order as above; in local mode the transforms that
\* had completed when as_completed started are reported first, in any order,
\* and the others after them in the order they completed.
C8_LateInCompletionOrder ==
    /\ SequentialInOrder
    /\ ~smb_mode =>
          /\ IsPrefix(Late(ReportedSeq), Late(completion))
          /\ \A k \in 1..Len(printed) :
                 ReportedSeq[k] \in early => \A j \in 1..k : ReportedSeq[j] \in early

C8_Witness ==
    /\ ~smb_mode /\ pc = "done" /\ Len(files) = 3
    /\ completion = <<1, 2, 3>>
    /\ ReportedSeq = <<3, 2, 1>>

\* C9: the second run finds the files the first run found, targets the same
\* destinations, prints the same result for every file, leaves the same
\* output names, and no line of it reports that something exists already
\* unless the path compressed is a regular file.
C9_SecondRunSame ==
    run = 2 =>
        /\ pc # "start" => files = first.files
        /\ pc = "done" =>
              /\ {Destination(files[i]) : i \in 1..Len(files)} = first.dests
              /\ Range(printed) = first.lines
              /\ Outputs = first.outputs
        /\ compressed.kind # "file" =>
              \A k \in 1..Len(printed) : printed[k].cause # "FileExistsError"

C9_Witness ==
    /\ run = 2 /\ pc = "done" /\ Len(files) >= 2
    /\ first.outputs # {} /\ Outputs = first.outputs
    /\ \E k \in 1..Len(printed) : printed[k].tag = "OK"

\* C10: whenever process_image resizes, both sides it asks for are at least 1.
C10_NoZeroSide ==
    (Called /\ outcome.resized # << >>) =>
        outcome.resized[1] >= 1 /\ outcome.resized[2] >= 1

====
